---- MODULE Spec2Model ----
(***************************************************************************)
(* Model of the DNS covert-channel listener, server/listeners/dns.py:      *)
(* the label encoder, the chunking and reassembly engine, the wire codec,  *)
(* the query dispatcher with its handlers, and the periodic sweep.         *)
(*                                                                         *)
(* Text and bytes are sequences of character codes (0..255); a comment     *)
(* next to each literal gives the text it stands for.                      *)
(***************************************************************************)
EXTENDS Integers, Sequences, FiniteSets, TLC

----------------------------------------------------------------------------
(* Character codes and literals *)

DOT    == 46   \* '.'
EQUALS == 61   \* '='
HYPHEN == 45   \* '-'
SLASH  == 47   \* '/'
COLON  == 58   \* ':'

S_checkin == <<99, 104, 101, 99, 107, 105, 110>>   \* "checkin"
S_task    == <<116, 97, 115, 107>>                 \* "task"
S_result  == <<114, 101, 115, 117, 108, 116>>      \* "result"
S_beacon  == <<98, 101, 97, 99, 111, 110>>         \* "beacon"
S_ERROR   == <<69, 82, 82, 79, 82>>                \* b"ERROR"
S_NOTASK  == <<78, 79, 84, 65, 83, 75>>            \* b"NOTASK"
S_ACK     == <<65, 67, 75>>                        \* b"ACK"
S_PONG    == <<80, 79, 78, 71>>                    \* b"PONG"
S_CHUNK   == <<67, 72, 85, 78, 75, 58>>            \* "CHUNK:"
S_MULTI   == <<77, 85, 76, 84, 73, 58>>            \* "MULTI:"

----------------------------------------------------------------------------
(* Python string and bytes primitives used by the listener *)

Min(a, b) == IF a < b THEN a ELSE b

\* s[a:b] with 0 <= a, clamped to the length of s like a Python slice
Slice(s, a, b) == SubSeq(s, a + 1, Min(b, Len(s)))

Upper(s) == [i \in 1..Len(s) |-> IF s[i] \in 97..122 THEN s[i] - 32 ELSE s[i]]

Lower(s) == [i \in 1..Len(s) |-> IF s[i] \in 65..90 THEN s[i] + 32 ELSE s[i]]

Replace(s, a, b) == [i \in 1..Len(s) |-> IF s[i] = a THEN b ELSE s[i]]

\* length of s.rstrip(c)
RStripLen(s, c) ==
    IF \E i \in 1..Len(s) : s[i] # c
    THEN CHOOSE i \in 1..Len(s) : s[i] # c /\ \A j \in (i + 1)..Len(s) : s[j] = c
    ELSE 0

RStrip(s, c) == SubSeq(s, 1, RStripLen(s, c))

Repeat(c, n) == [i \in 1..n |-> c]

\* s.split(sep): the pieces between the separators, empty pieces included
RECURSIVE SplitOn(_, _)
SplitOn(s, sep) ==
    IF \E i \in 1..Len(s) : s[i] = sep
    THEN LET k == CHOOSE i \in 1..Len(s) : s[i] = sep /\ \A j \in 1..(i - 1) : s[j] # sep
         IN  <<SubSeq(s, 1, k - 1)>> \o SplitOn(SubSeq(s, k + 1, Len(s)), sep)
    ELSE <<s>>

\* sep.join(parts)
RECURSIVE JoinWith(_, _)
JoinWith(parts, sep) ==
    IF Len(parts) = 0 THEN <<>>
    ELSE IF Len(parts) = 1 THEN parts[1]
    ELSE parts[1] \o <<sep>> \o JoinWith(Tail(parts), sep)

\* s.endswith(suffix)
EndsWith(s, suffix) ==
    /\ Len(s) >= Len(suffix)
    /\ SubSeq(s, Len(s) - Len(suffix) + 1, Len(s)) = suffix

\* str(n) for an integer n
RECURSIVE NatToStr(_)
NatToStr(n) ==
    IF n < 10 THEN <<48 + n>> ELSE NatToStr(n \div 10) \o <<48 + (n % 10)>>

IntToStr(n) == IF n < 0 THEN <<HYPHEN>> \o NatToStr(0 - n) ELSE NatToStr(n)

IsDigits(s) == Len(s) > 0 /\ \A i \in 1..Len(s) : s[i] \in 48..57

RECURSIVE DigitsToNat(_)
DigitsToNat(s) ==
    IF Len(s) = 0 THEN 0
    ELSE 10 * DigitsToNat(SubSeq(s, 1, Len(s) - 1)) + (s[Len(s)] - 48)

\* int(s): an optional sign and decimal digits; anything else raises ValueError.
\* (Surrounding white space and digit-group underscores, which int() also
\* accepts, are not among the modelled inputs.)
ParseInt(s) ==
    IF IsDigits(s) THEN [ok |-> TRUE, val |-> DigitsToNat(s)]
    ELSE IF Len(s) > 1 /\ s[1] = HYPHEN /\ IsDigits(Tail(s))
         THEN [ok |-> TRUE, val |-> 0 - DigitsToNat(Tail(s))]
    ELSE IF Len(s) > 1 /\ s[1] = 43 /\ IsDigits(Tail(s))
         THEN [ok |-> TRUE, val |-> DigitsToNat(Tail(s))]
    ELSE [ok |-> FALSE, val |-> 0]

\* the result of a call that may raise
Raised    == [ok |-> FALSE, val |-> <<>>]
Return(v) == [ok |-> TRUE, val |-> v]

----------------------------------------------------------------------------
(* base64.b32encode / base64.b32decode *)

\* "ABCDEFGHIJKLMNOPQRSTUVWXYZ234567"
B32Alphabet == [i \in 1..32 |-> IF i <= 26 THEN 64 + i ELSE 23 + i]

B32Encode(b) ==
    LET nbits  == 8 * Len(b)
        nchars == (nbits + 4) \div 5
        bit(i) == IF i < nbits THEN (b[(i \div 8) + 1] \div (2 ^ (7 - (i % 8)))) % 2 ELSE 0
        val(k) == 16 * bit(5 * k) + 8 * bit(5 * k + 1) + 4 * bit(5 * k + 2)
                  + 2 * bit(5 * k + 3) + bit(5 * k + 4)
    IN  [k \in 1..nchars |-> B32Alphabet[val(k - 1) + 1]]
        \o Repeat(EQUALS, (8 - (nchars % 8)) % 8)

B32Decode(s) ==
    LET l        == Len(s)
        n        == RStripLen(s, EQUALS)
        padchars == l - n
        valid(c) == c \in 65..90 \/ c \in 50..55
        rev(c)   == IF c >= 65 THEN c - 65 ELSE c - 24
        nq       == (n + 7) \div 8
        leftover == (43 - 5 * padchars) \div 8
        nbytes   == IF padchars = 0 \/ n = 0 THEN 5 * nq ELSE 5 * (nq - 1) + leftover
        bit(i)   == IF (i \div 5) < n
                    THEN (rev(s[(i \div 5) + 1]) \div (2 ^ (4 - (i % 5)))) % 2
                    ELSE 0
        byte(j)  == 128 * bit(8 * j) + 64 * bit(8 * j + 1) + 32 * bit(8 * j + 2)
                    + 16 * bit(8 * j + 3) + 8 * bit(8 * j + 4) + 4 * bit(8 * j + 5)
                    + 2 * bit(8 * j + 6) + bit(8 * j + 7)
    IN  IF l % 8 # 0 THEN Raised                                \* Incorrect padding
        ELSE IF \E i \in 1..n : ~valid(s[i]) THEN Raised        \* Non-base32 digit found
        ELSE IF padchars \notin {0, 1, 3, 4, 6} THEN Raised     \* Incorrect padding
        ELSE Return([j \in 1..nbytes |-> byte(j - 1)])

----------------------------------------------------------------------------
(* Label encoder *)

max_label_length == 63

encode_data(data) ==
    Replace(RStrip(Lower(B32Encode(data)), EQUALS), SLASH, HYPHEN)

decode_data_keepcase(encoded) ==
    LET padding == (8 - (Len(encoded) % 8)) % 8
    IN  B32Decode(Replace(encoded \o Repeat(EQUALS, padding), HYPHEN, SLASH))

decode_data(encoded) ==
    LET padding == (8 - (Len(encoded) % 8)) % 8
    IN  B32Decode(Replace(Upper(encoded) \o Repeat(EQUALS, padding), HYPHEN, SLASH))

----------------------------------------------------------------------------
(* Chunking *)

\* '.'.join of the max_label_length-sized pieces of s
SplitIntoLabels(s) ==
    LET np == (Len(s) + max_label_length - 1) \div max_label_length
    IN  [i \in 1..(Len(s) + np - 1) |->
            LET block  == (i - 1) \div (max_label_length + 1)
                within == (i - 1) % (max_label_length + 1)
            IN  IF within = max_label_length THEN DOT
                ELSE s[max_label_length * block + within + 1]]

split_data(data, message_id, chunk_size) ==
    LET total_chunks == (Len(data) + chunk_size - 1) \div chunk_size
        chunk_domain(i) ==
            LET chunk == Slice(data, i * chunk_size, (i + 1) * chunk_size)
                name  == message_id \o <<DOT>> \o IntToStr(i) \o <<DOT>>
                         \o IntToStr(total_chunks) \o <<DOT>> \o encode_data(chunk)
            IN  IF Len(name) > max_label_length THEN SplitIntoLabels(name) ELSE name
    IN  [k \in 1..total_chunks |-> chunk_domain(k - 1)]

----------------------------------------------------------------------------
(* json.dumps / json.loads on the values the listener exchanges.             *)
(* A JSON value is [t |-> "str", v |-> text], [t |-> "int", v |-> n] or      *)
(* [t |-> "obj", v |-> <<pairs>>], a pair being <<key, value>> in insertion  *)
(* order.                                                                    *)

QUOTE  == 34   \* '"'
COMMA  == 44   \* ','
SPACE  == 32   \* ' '
LBRACE == 123  \* '{'
RBRACE == 125  \* '}'

JStr(v) == [t |-> "str", v |-> v]
JInt(n) == [t |-> "int", v |-> n]
JObj(pairs) == [t |-> "obj", v |-> pairs]

\* json.dumps with the default separators ", " and ": "
RECURSIVE JsonDumps(_)
JsonDumps(val) ==
    IF val.t = "str" THEN <<QUOTE>> \o val.v \o <<QUOTE>>
    ELSE IF val.t = "int" THEN IntToStr(val.v)
    ELSE LET pair(i) == <<QUOTE>> \o val.v[i][1] \o <<QUOTE, COLON, SPACE>>
                        \o JsonDumps(val.v[i][2])
             body[i \in 0..Len(val.v)] ==
                 IF i = 0 THEN <<>>
                 ELSE IF i = 1 THEN pair(1)
                 ELSE body[i - 1] \o <<COMMA, SPACE>> \o pair(i)
         IN  <<LBRACE>> \o body[Len(val.v)] \o <<RBRACE>>

LStripSpace(s) ==
    IF \E i \in 1..Len(s) : s[i] # SPACE
    THEN SubSeq(s, CHOOSE i \in 1..Len(s) : s[i] # SPACE /\ \A j \in 1..(i - 1) : s[j] = SPACE,
                Len(s))
    ELSE <<>>

IsQuoted(s) ==
    /\ Len(s) >= 2
    /\ s[1] = QUOTE
    /\ s[Len(s)] = QUOTE
    /\ \A i \in 2..(Len(s) - 1) : s[i] # QUOTE /\ s[i] # 92

JsonScalar(s) ==
    IF IsQuoted(s) THEN Return(JStr(SubSeq(s, 2, Len(s) - 1)))
    ELSE IF ParseInt(s).ok /\ s[1] # 43 THEN Return(JInt(ParseInt(s).val))
    ELSE IF s = <<LBRACE, RBRACE>> THEN Return(JObj(<<>>))
    ELSE Raised

JsonPair(item) ==
    LET pieces == SplitOn(item, COLON)
    IN  IF Len(pieces) # 2 \/ ~IsQuoted(pieces[1]) THEN Raised
        ELSE LET value == JsonScalar(LStripSpace(pieces[2]))
             IN  IF value.ok
                 THEN Return(<<SubSeq(pieces[1], 2, Len(pieces[1]) - 1), value.val>>)
                 ELSE Raised

\* json.loads of a flat object whose values are strings, integers or {}.
\* Text outside this grammar is reported as a decoding error; the listener
\* answers every other document (a list, a number, ...) exactly as it answers
\* a decoding error, because it goes on to use the result as a dict.
JsonLoads(b) ==
    IF Len(b) < 2 \/ b[1] # LBRACE \/ b[Len(b)] # RBRACE THEN Raised
    ELSE LET inner == SubSeq(b, 2, Len(b) - 1)
         IN  IF inner = <<>> THEN Return(<<>>)
             ELSE LET items == SplitOn(inner, COMMA)
                      parsed(i) == JsonPair(LStripSpace(items[i]))
                  IN  IF \A i \in 1..Len(items) : parsed(i).ok
                      THEN Return([i \in 1..Len(items) |-> parsed(i).val])
                      ELSE Raised

\* dict lookups on a parsed object (the last pair with a key wins)
HasKey(obj, key) == \E i \in 1..Len(obj) : obj[i][1] = key

GetKey(obj, key) ==
    obj[CHOOSE i \in 1..Len(obj) :
            obj[i][1] = key /\ \A j \in (i + 1)..Len(obj) : obj[j][1] # key][2]

\* the dict after dict.pop(key)
RECURSIVE PopKey(_, _)
PopKey(obj, key) ==
    IF Len(obj) = 0 THEN <<>>
    ELSE IF obj[1][1] = key THEN PopKey(Tail(obj), key)
    ELSE <<obj[1]>> \o PopKey(Tail(obj), key)

\* bytes.decode(): the modelled inputs are ASCII or contain a byte that is
\* no valid UTF-8 start byte
Utf8Decode(b) ==
    IF \A i \in 1..Len(b) : b[i] < 128 THEN Return(b) ELSE Raised

----------------------------------------------------------------------------
(* Wire codec *)

TYPE_A   == 1    \* DNSType.A
TYPE_NS  == 2    \* DNSType.NS
TYPE_SOA == 6    \* DNSType.SOA
TYPE_TXT == 16   \* DNSType.TXT
CLASS_IN == 1    \* DNSClass.IN

FLAGS_SUCCESS  == 33152   \* 0x8180
FLAGS_NXDOMAIN == 33155   \* 0x8183
FLAGS_SERVFAIL == 33154   \* 0x8182

\* struct.unpack('!H', data[off:off+2]): raises unless two bytes are there
Unpack16(data, off) ==
    IF off + 2 <= Len(data)
    THEN Return(256 * data[off + 1] + data[off + 2])
    ELSE Raised

\* struct.pack('!H', n)
Pack16(n) == <<n \div 256, n % 256>>

\* the label loop of parse_dns_query, from byte offset `offset` on
RECURSIVE ParseName(_, _, _)
ParseName(data, offset, domain_parts) ==
    IF offset >= Len(data) THEN [ok |-> FALSE, offset |-> offset, parts |-> <<>>]  \* IndexError
    ELSE LET length == data[offset + 1]
         IN  IF length = 0
             THEN [ok |-> TRUE, offset |-> offset + 1, parts |-> domain_parts]
             ELSE IF length \div 64 = 3      \* length & 0xC0 == 0xC0
             THEN IF Unpack16(data, offset).ok
                  THEN [ok |-> TRUE, offset |-> offset + 2, parts |-> domain_parts]
                  ELSE [ok |-> FALSE, offset |-> offset, parts |-> <<>>]
             ELSE LET label == Slice(data, offset + 1, offset + 1 + length)
                  IN  IF \E i \in 1..Len(label) : label[i] >= 128      \* decode('ascii')
                      THEN [ok |-> FALSE, offset |-> offset, parts |-> <<>>]
                      ELSE ParseName(data, offset + 1 + length, Append(domain_parts, label))

RECURSIVE ParseQuestions(_, _, _, _)
ParseQuestions(data, offset, remaining, questions) ==
    IF remaining = 0 THEN Return(questions)
    ELSE LET name == ParseName(data, offset, <<>>)
         IN  IF ~name.ok THEN Raised
             ELSE LET qtype  == Unpack16(data, name.offset)
                      qclass == Unpack16(data, name.offset + 2)
                  IN  IF ~qtype.ok \/ ~qclass.ok THEN Raised
                      ELSE ParseQuestions(data, name.offset + 4, remaining - 1,
                               Append(questions,
                                      [domain |-> JoinWith(name.parts, DOT),
                                       qtype |-> qtype.val, qclass |-> qclass.val]))

parse_dns_query(data) ==
    LET transaction_id == Unpack16(data, 0)
        flags          == Unpack16(data, 2)
        qdcount        == Unpack16(data, 4)
    IN  IF ~transaction_id.ok \/ ~flags.ok \/ ~qdcount.ok THEN Raised
        ELSE LET questions == ParseQuestions(data, 12, qdcount.val, <<>>)
             IN  IF questions.ok
                 THEN Return([transaction_id |-> transaction_id.val,
                              questions |-> questions.val])
                 ELSE Raised

\* the labels of a name, length-prefixed, empty labels dropped, then a zero
RECURSIVE EncodeLabels(_)
EncodeLabels(parts) ==
    IF Len(parts) = 0 THEN <<0>>
    ELSE IF Len(parts[1]) = 0 THEN EncodeLabels(Tail(parts))
    ELSE <<Len(parts[1])>> \o parts[1] \o EncodeLabels(Tail(parts))

encode_domain(domain) == EncodeLabels(SplitOn(domain, DOT))

RECURSIVE QuestionData(_)
QuestionData(questions) ==
    IF Len(questions) = 0 THEN <<>>
    ELSE encode_domain(questions[1].domain) \o Pack16(questions[1].qtype)
         \o Pack16(questions[1].qclass) \o QuestionData(Tail(questions))

\* A response datagram, field by field: the six header words, the question
\* section as bytes, and the answer records (name is the bytes written for
\* the owner name; replies_to is the domain of the answer tuple, which is not
\* written).
NoResponse == [sent |-> FALSE]

build_dns_response(transaction_id, questions, answers) ==
    [sent |-> TRUE, id |-> transaction_id, flags |-> FLAGS_SUCCESS,
     qdcount |-> Len(questions), ancount |-> Len(answers), nscount |-> 0, arcount |-> 0,
     question_data |-> QuestionData(questions),
     answers |-> [i \in 1..Len(answers) |->
                    [name |-> <<192, 12>>, replies_to |-> answers[i].domain,
                     rtype |-> answers[i].rtype,
                     rclass |-> answers[i].rclass, ttl |-> answers[i].ttl,
                     rdlength |-> Len(answers[i].rdata), rdata |-> answers[i].rdata]]]

build_nxdomain_response(transaction_id, questions) ==
    [sent |-> TRUE, id |-> transaction_id, flags |-> FLAGS_NXDOMAIN,
     qdcount |-> Len(questions), ancount |-> 0, nscount |-> 0, arcount |-> 0,
     question_data |-> QuestionData(questions), answers |-> <<>>]

\* raises when transaction_id_bytes is shorter than two bytes
build_servfail_response(transaction_id_bytes) ==
    IF Len(transaction_id_bytes) # 2 THEN Raised
    ELSE Return([sent |-> TRUE,
                 id |-> 256 * transaction_id_bytes[1] + transaction_id_bytes[2],
                 flags |-> FLAGS_SERVFAIL,
                 qdcount |-> 0, ancount |-> 0, nscount |-> 0, arcount |-> 0,
                 question_data |-> <<>>, answers |-> <<>>])

\* length-prefixed segments of at most 255 bytes
build_txt_response(data) ==
    LET nseg == (Len(data) + 254) \div 255
    IN  [i \in 1..(Len(data) + nseg) |->
            LET block  == (i - 1) \div 256
                within == (i - 1) % 256
            IN  IF within = 0 THEN Min(255, Len(data) - 255 * block)
                ELSE data[255 * block + within]]

build_error_response == build_txt_response(S_ERROR)

----------------------------------------------------------------------------
(* Listener configuration *)

domain_name  == <<99, 50, 46, 116, 101, 115, 116>>   \* self.domain = "c2.test"
chunk_size   == 50                                   \* self.chunk_size
ttl          == 300                                  \* self.ttl
MultiThreshold == 200                                \* len(task_data) > 200
response_ip  == <<127, 0, 0, 1>>
ns_records   == << <<110, 115, 49, 46, 101, 120, 97, 109, 112, 108, 101, 46, 99, 111, 109>>,
                   <<110, 115, 50, 46, 101, 120, 97, 109, 112, 108, 101, 46, 99, 111, 109>> >>
soa_email    == <<97, 100, 109, 105, 110, 46, 101, 120, 97, 109, 112, 108, 101, 46, 99, 111, 109>>

K_task_id      == <<116, 97, 115, 107, 95, 105, 100>>
K_agent_id     == <<97, 103, 101, 110, 116, 95, 105, 100>>
K_session_id   == <<115, 101, 115, 115, 105, 111, 110, 95, 105, 100>>
K_hostname     == <<104, 111, 115, 116, 110, 97, 109, 101>>
K_username     == <<117, 115, 101, 114, 110, 97, 109, 101>>
K_platform     == <<112, 108, 97, 116, 102, 111, 114, 109>>
K_architecture == <<97, 114, 99, 104, 105, 116, 101, 99, 116, 117, 114, 101>>
K_process_id   == <<112, 114, 111, 99, 101, 115, 115, 95, 105, 100>>
K_internal_ip  == <<105, 110, 116, 101, 114, 110, 97, 108, 95, 105, 112>>
K_external_ip  == <<101, 120, 116, 101, 114, 110, 97, 108, 95, 105, 112>>
K_status       == <<115, 116, 97, 116, 117, 115>>
K_id           == <<105, 100>>
K_command      == <<99, 111, 109, 109, 97, 110, 100>>
K_parameters   == <<112, 97, 114, 97, 109, 101, 116, 101, 114, 115>>
K_tasks        == <<116, 97, 115, 107, 115>>
K_sleep        == <<115, 108, 101, 101, 112>>
V_completed    == <<99, 111, 109, 112, 108, 101, 116, 101, 100>>

----------------------------------------------------------------------------
(* The state the handlers work on, as one record:                            *)
(*   incoming_messages  message_id -> [chunks, total_chunks, timestamp]      *)
(*   outgoing_messages  agent_id -> list of chunk names                      *)
(*   agent_sessions     transaction_id -> agent_id                           *)
(*   tasks              the Task table: id -> [agent_id, status, command,    *)
(*                      parameters]                                          *)
(*   agents             the Agent table: id -> [last_seen]                   *)
(*   submitted          the calls of submit_task_result that committed       *)
(* A handler yields [answer, st, ev]: the record data it returns (<<>> for   *)
(* None), the state it leaves, and what it did (ev), which the properties    *)
(* read.                                                                     *)

EmptyMap == <<>>

Put(map, key, value) == (key :> value) @@ map

Remove(map, key) == [k \in (DOMAIN map) \ {key} |-> map[k]]

Event(kind) ==
    [kind |-> kind, agent |-> <<>>, resolved |-> FALSE, task |-> <<>>,
     mid |-> <<>>, idx |-> 0, ingested |-> FALSE, fresh |-> FALSE,
     reassembled |-> FALSE, full_data |-> <<>>, registered |-> FALSE, parts |-> <<>>]

Outcome(answer, st, ev) == [answer |-> answer, st |-> st, ev |-> ev, raised |-> FALSE]

\* the handler raised: the exception reaches process_query
Escaped(st, ev) == [answer |-> <<>>, st |-> st, ev |-> ev, raised |-> TRUE]

\* a TaskResult whose task_id field is optional
TaskResultValid_optional(result) ==
    HasKey(result, K_task_id) => GetKey(result, K_task_id).t = "str"

\* TaskResult(**result): task_id is a required field
TaskResultValid(result) ==
    /\ HasKey(result, K_task_id)
    /\ GetKey(result, K_task_id).t = "str"

\* the part of handle_result_query that runs once all chunks are there
ProcessResult(st, message_id, full_data, ev) ==
    LET Submit(task_id, result) ==
            IF ~TaskResultValid(result)
               \/ task_id.t # "str"
               \/ task_id.v \notin DOMAIN st.tasks             \* 404 Task not found
            THEN Outcome(build_error_response, st, ev)
            ELSE Outcome(build_txt_response(S_ACK),
                         [st EXCEPT
                            !.tasks[task_id.v].status =
                                IF HasKey(result, K_status)
                                THEN GetKey(result, K_status).v
                                ELSE V_completed,
                            !.submitted = Append(@, [task_id |-> task_id.v,
                                                     message_id |-> message_id]),
                            !.incoming_messages = Remove(@, message_id)],
                         ev)
        Loaded(loaded) ==
            IF ~loaded.ok \/ ~HasKey(loaded.val, K_task_id)
            THEN Outcome(build_error_response, st, ev)
            ELSE Submit(GetKey(loaded.val, K_task_id), PopKey(loaded.val, K_task_id))
    IN  Loaded(JsonLoads(full_data))

handle_result_query(parts, transaction_id, st, now) ==
    IF Len(parts) < 3 THEN Outcome(build_error_response, st, Event("result"))
    ELSE
    LET message_id   == parts[1]
        chunk_num    == ParseInt(parts[2])
        total_chunks == ParseInt(parts[3])
        chunk_data   == IF Len(parts) > 3
                        THEN decode_data(JoinWith(SubSeq(parts, 4, Len(parts)), DOT))
                        ELSE Return(<<>>)
    IN  IF ~chunk_num.ok \/ ~total_chunks.ok \/ ~chunk_data.ok
        THEN Outcome(build_error_response, st, Event("result"))
        ELSE
        LET fresh   == message_id \notin DOMAIN st.incoming_messages
            created == IF fresh
                       THEN Put(st.incoming_messages, message_id,
                                [chunks |-> EmptyMap, total_chunks |-> total_chunks.val,
                                 timestamp |-> now])
                       ELSE st.incoming_messages
            stored  == [created EXCEPT ![message_id].chunks =
                                           Put(@, chunk_num.val, chunk_data.val)]
            st1     == [st EXCEPT !.incoming_messages = stored]
            chunks  == stored[message_id].chunks
            ev      == [Event("result") EXCEPT !.mid = message_id, !.idx = chunk_num.val,
                                               !.ingested = TRUE, !.fresh = fresh]
        IN  IF Cardinality(DOMAIN chunks) = total_chunks.val
            THEN IF \E i \in 0..(total_chunks.val - 1) : i \notin DOMAIN chunks
                 THEN Outcome(build_error_response, st1, ev)            \* KeyError
                 ELSE LET piece[i \in 0..total_chunks.val] ==
                              IF i = 0 THEN <<>> ELSE piece[i - 1] \o chunks[i - 1]
                          full_data == piece[total_chunks.val]
                      IN  ProcessResult(st1, message_id, full_data,
                                        [ev EXCEPT !.reassembled = TRUE,
                                                   !.full_data = full_data])
            ELSE Outcome(build_txt_response(S_CHUNK \o IntToStr(chunk_num.val)), st1, ev)

OperatorSessions == {<<115, 49>>}     \* the OperatorSession table: "s1"
AgentIdPool == {<<97, 103, 49>>}      \* the id the Agent table hands out next: "ag1"
DefaultSleep == 60                    \* Agent.sleep_interval

\* AgentCheckIn(**agent_info): the required fields and their types
AgentCheckInValid(info) ==
    /\ \A k \in {K_session_id, K_hostname, K_username, K_platform, K_architecture,
                 K_internal_ip, K_external_ip} :
            HasKey(info, k) /\ GetKey(info, k).t = "str"
    /\ HasKey(info, K_process_id) /\ GetKey(info, K_process_id).t = "int"
    /\ HasKey(info, K_agent_id) => GetKey(info, K_agent_id).t = "str"

\* the pending rows of every agent
PendingTasks_any(tasks, agent_id) ==
    {t \in DOMAIN tasks : tasks[t].status = "pending"}

PendingTasks(tasks, agent_id) ==
    {t \in DOMAIN tasks : tasks[t].agent_id = agent_id /\ tasks[t].status = "pending"}

\* api.agents.agent_checkin: [ok, st, agent_id, tasks]
agent_checkin(info, st, now) ==
    LET given == IF HasKey(info, K_agent_id) THEN GetKey(info, K_agent_id).v ELSE <<>>
        unused == AgentIdPool \ DOMAIN st.agents
    IN  IF GetKey(info, K_session_id).v \notin OperatorSessions
        THEN [ok |-> FALSE, st |-> st, agent_id |-> <<>>, tasks |-> 0]
        ELSE IF given # <<>> /\ given \notin DOMAIN st.agents
        THEN [ok |-> FALSE, st |-> st, agent_id |-> <<>>, tasks |-> 0]
        ELSE IF given = <<>> /\ unused = {}
        THEN [ok |-> FALSE, st |-> st, agent_id |-> <<>>, tasks |-> 0]
        ELSE LET agent_id == IF given # <<>> THEN given ELSE CHOOSE a \in unused : TRUE
                 pending  == PendingTasks(st.tasks, agent_id)
             IN  [ok |-> TRUE,
                  st |-> [st EXCEPT
                            !.agents = Put(@, agent_id, [last_seen |-> now]),
                            !.tasks = [t \in DOMAIN @ |->
                                         IF t \in pending
                                         THEN [@[t] EXCEPT !.status = "sent"]
                                         ELSE @[t]]],
                  agent_id |-> agent_id,
                  tasks |-> Cardinality(pending)]

handle_checkin_query(parts, transaction_id, st, now) ==
    IF Len(parts) < 2 THEN Outcome(build_error_response, st, Event("checkin"))
    ELSE
    LET Registered(result) ==
            IF ~result.ok THEN Outcome(build_error_response, st, Event("checkin"))
            ELSE Outcome(build_txt_response(
                             JsonDumps(JObj(<< <<K_agent_id, JStr(result.agent_id)>>,
                                               <<K_tasks, JInt(result.tasks)>>,
                                               <<K_sleep, JInt(DefaultSleep)>> >>))),
                         [result.st EXCEPT !.agent_sessions =
                             IF result.agent_id # <<>>
                             THEN Put(@, transaction_id, result.agent_id)
                             ELSE @],
                         [Event("checkin") EXCEPT !.registered = TRUE,
                                                  !.agent = result.agent_id])
        Loaded(agent_info) ==
            IF ~agent_info.ok THEN Outcome(build_error_response, st, Event("checkin"))
            ELSE IF ~AgentCheckInValid(agent_info.val)
            THEN Outcome(build_error_response, st, Event("checkin"))
            ELSE Registered(agent_checkin(agent_info.val, st, now))
        Decoded(agent_data) ==
            Loaded(IF agent_data.ok THEN JsonLoads(agent_data.val) ELSE Raised)
    IN  Decoded(decode_data(JoinWith(parts, DOT)))

\* a serialization that leaves the task id empty
SerializeTask_anonymous(task_id, task) ==
    LET Dumped(parameters) ==
            IF ~parameters.ok THEN Raised
            ELSE Return(JsonDumps(JObj(<< <<K_id, JStr(<<>>)>>,
                                          <<K_command, JStr(task.command)>>,
                                          <<K_parameters, JObj(parameters.val)>> >>)))
    IN  Dumped(IF task.parameters # <<>> THEN JsonLoads(task.parameters) ELSE Return(<<>>))

\* json.dumps({'id': ..., 'command': ..., 'parameters': ...}) of a Task row
SerializeTask(task_id, task) ==
    LET Dumped(parameters) ==
            IF ~parameters.ok THEN Raised
            ELSE Return(JsonDumps(JObj(<< <<K_id, JStr(task_id)>>,
                                          <<K_command, JStr(task.command)>>,
                                          <<K_parameters, JObj(parameters.val)>> >>)))
    IN  Dumped(IF task.parameters # <<>> THEN JsonLoads(task.parameters) ELSE Return(<<>>))

\* some other definition of "too long for one response"
NeedsChunking_inclusive(task_data) == Len(task_data) >= MultiThreshold

\* if len(task_data) > 200
NeedsChunking(task_data) == Len(task_data) > MultiThreshold

\* the store cannot be reached: db.query raises
StoreDown == <<0>>

\* pick: which of the pending rows the store's query returns first, or
\* StoreDown
handle_task_query(parts, transaction_id, st, now, pick) ==
    IF Len(parts) < 1 THEN Outcome(build_error_response, st, Event("task"))
    ELSE
    LET bound == IF transaction_id \in DOMAIN st.agent_sessions
                 THEN st.agent_sessions[transaction_id] ELSE <<>>
        Queued(agent_id, sent, ev1, message_id, chunks) ==
            Outcome(build_txt_response(S_MULTI \o message_id \o <<COLON>>
                                       \o IntToStr(Len(chunks))),
                    [sent EXCEPT !.outgoing_messages = Put(@, agent_id, chunks)],
                    ev1)
        Deliver(agent_id, task_id, sent, ev1, task_data) ==
            IF ~task_data.ok THEN Escaped(sent, ev1)
            ELSE IF NeedsChunking(task_data.val)
            THEN Queued(agent_id, sent, ev1,
                        <<116>> \o Slice(task_id, 0, 8),             \* f"t{task.id[:8]}"
                        split_data(task_data.val, <<116>> \o Slice(task_id, 0, 8), chunk_size))
            ELSE Outcome(build_txt_response(task_data.val), sent, ev1)
        Pull(agent_id, pending, ev) ==
            IF pending = {}
            THEN Outcome(build_txt_response(S_NOTASK), st, ev)
            ELSE
            LET task_id == IF pick \in pending THEN pick ELSE CHOOSE t \in pending : TRUE
            IN  Deliver(agent_id, task_id,
                        [st EXCEPT !.tasks[task_id].status = "sent"],
                        [ev EXCEPT !.task = task_id],
                        SerializeTask(task_id, st.tasks[task_id]))
        Resolved(agent_id) ==
            IF pick = StoreDown
            THEN Escaped(st, [Event("task") EXCEPT !.agent = agent_id, !.resolved = TRUE])
            ELSE Pull(agent_id, PendingTasks(st.tasks, agent_id),
                      [Event("task") EXCEPT !.agent = agent_id, !.resolved = TRUE])
        Decoded(text) ==
            IF bound = <<>> /\ ~text.ok
            THEN Outcome(build_error_response, st, Event("task"))
            ELSE Resolved(IF bound # <<>> THEN bound ELSE text.val)
        Text(decoded) == Decoded(IF decoded.ok THEN Utf8Decode(decoded.val) ELSE Raised)
    IN  Text(decode_data(parts[1]))

\* a beacon handler that insists on a known agent
handle_beacon_query_strict(parts, transaction_id, st, now) ==
    IF transaction_id \in DOMAIN st.agent_sessions
       /\ st.agent_sessions[transaction_id] \in DOMAIN st.agents
    THEN Outcome(build_txt_response(S_PONG),
                 [st EXCEPT !.agents[st.agent_sessions[transaction_id]].last_seen = now],
                 [Event("beacon") EXCEPT !.agent = st.agent_sessions[transaction_id],
                                         !.resolved = TRUE])
    ELSE Outcome(build_error_response, st, Event("beacon"))

handle_beacon_query(parts, transaction_id, st, now) ==
    LET agent_id == IF transaction_id \in DOMAIN st.agent_sessions
                    THEN st.agent_sessions[transaction_id] ELSE <<>>
    IN  IF agent_id # <<>> /\ agent_id \in DOMAIN st.agents
        THEN Outcome(build_txt_response(S_PONG),
                     [st EXCEPT !.agents[agent_id].last_seen = now],
                     [Event("beacon") EXCEPT !.agent = agent_id, !.resolved = TRUE])
        ELSE Outcome(build_txt_response(S_PONG), st, Event("beacon"))

handle_data_query(parts, transaction_id, st) == Outcome(<<>>, st, Event("data"))

handle_agent_query(domain, qtype, transaction_id, st, now, pick) ==
    LET suffix == <<DOT>> \o domain_name
    IN  IF ~EndsWith(domain, suffix) THEN Outcome(<<>>, st, Event("none"))
        ELSE
        LET subdomain == SubSeq(domain, 1, Len(domain) - (Len(suffix) + 1))
            parts     == SplitOn(subdomain, DOT)
            \* the event remembers the labels the subdomain was split into
            Dispatched(out) == [out EXCEPT !.ev.parts = parts]
        IN  IF subdomain = <<>> THEN Outcome(<<>>, st, Event("none"))
            ELSE IF parts[1] = S_checkin
            THEN Dispatched(handle_checkin_query(Tail(parts), transaction_id, st, now))
            ELSE IF parts[1] = S_task
            THEN Dispatched(handle_task_query(Tail(parts), transaction_id, st, now, pick))
            ELSE IF parts[1] = S_result
            THEN Dispatched(handle_result_query(Tail(parts), transaction_id, st, now))
            ELSE IF parts[1] = S_beacon
            THEN Dispatched(handle_beacon_query(Tail(parts), transaction_id, st, now))
            ELSE Dispatched(handle_data_query(parts, transaction_id, st))

----------------------------------------------------------------------------
(* process_query *)

\* struct.pack('!I', n)
Pack32(n) == <<n \div 16777216, (n \div 65536) % 256, (n \div 256) % 256, n % 256>>

build_soa_record(now) ==
    encode_domain(ns_records[1]) \o encode_domain(Replace(soa_email, 64, DOT))
    \o Pack32(now) \o Pack32(7200) \o Pack32(3600) \o Pack32(1209600) \o Pack32(3600)

Answer(domain, rtype, rdata) ==
    [domain |-> domain, rtype |-> rtype, rclass |-> CLASS_IN, ttl |-> ttl, rdata |-> rdata]

\* the loop over the questions: [raised, st, answers, events]
RECURSIVE AnswerQuestions(_, _, _, _, _, _, _)
AnswerQuestions(questions, transaction_id, st, now, pick, answers, events) ==
    IF Len(questions) = 0
    THEN [raised |-> FALSE, st |-> st, answers |-> answers, events |-> events]
    ELSE
    LET q    == questions[1]
        rest == Tail(questions)
    IN  IF q.qclass # CLASS_IN
        THEN AnswerQuestions(rest, transaction_id, st, now, pick, answers, events)
        ELSE IF q.qtype = TYPE_A
        THEN AnswerQuestions(rest, transaction_id, st, now, pick,
                             Append(answers, Answer(q.domain, TYPE_A, response_ip)), events)
        ELSE IF q.qtype = TYPE_TXT
        THEN LET Handled_by(out) ==
                     IF out.raised
                     THEN [raised |-> TRUE, st |-> out.st, answers |-> answers,
                           events |-> Append(events, out.ev)]
                     ELSE AnswerQuestions(rest, transaction_id, out.st, now, pick,
                                          IF out.answer # <<>>
                                          THEN Append(answers,
                                                      Answer(q.domain, TYPE_TXT, out.answer))
                                          ELSE answers,
                                          Append(events, out.ev))
             IN  Handled_by(handle_agent_query(q.domain, q.qtype, transaction_id, st, now, pick))
        ELSE IF q.qtype = TYPE_NS
        THEN AnswerQuestions(rest, transaction_id, st, now, pick,
                             answers \o [i \in 1..Len(ns_records) |->
                                            Answer(q.domain, TYPE_NS, encode_domain(ns_records[i]))],
                             events)
        ELSE IF q.qtype = TYPE_SOA
        THEN AnswerQuestions(rest, transaction_id, st, now, pick,
                             Append(answers, Answer(q.domain, TYPE_SOA, build_soa_record(now))),
                             events)
        ELSE AnswerQuestions(rest, transaction_id, st, now, pick, answers, events)

\* SERVFAIL built in the except clause; when that raises too, the exception
\* leaves process_query and _handle_query sends nothing
ServfailOrNothing(data) ==
    LET built == build_servfail_response(Slice(data, 0, 2))
    IN  IF built.ok THEN built.val ELSE NoResponse

\* [response, st, events]
process_query(data, st, now, pick) ==
    LET Respond(query, done) ==
            [response |->
                 IF done.raised THEN ServfailOrNothing(data)
                 ELSE IF done.answers # <<>>
                 THEN build_dns_response(query.transaction_id, query.questions, done.answers)
                 ELSE build_nxdomain_response(query.transaction_id, query.questions),
             st |-> done.st,
             events |-> done.events]
        Parsed(parsed) ==
            IF ~parsed.ok
            THEN [response |-> ServfailOrNothing(data), st |-> st, events |-> <<>>]
            ELSE Respond(parsed.val,
                         AnswerQuestions(parsed.val.questions, parsed.val.transaction_id,
                                         st, now, pick, <<>>, <<>>))
    IN  Parsed(parse_dns_query(data))

----------------------------------------------------------------------------
VARIABLES
    incoming_messages,   \* self.incoming_messages
    outgoing_messages,   \* self.outgoing_messages
    agent_sessions,      \* self.agent_sessions
    tasks,               \* the Task table
    agents,              \* the Agent table
    submitted,           \* committed submit_task_result calls, in order
    clock,               \* datetime.utcnow(), in seconds since the listener started
    sweep_wake,          \* when cleanup_task's sleep ends
    request,             \* the datagram handled by the latest step, if it handled one
    response,            \* what was sent back for it
    events,              \* what the handlers did while answering it
    last_chunk,          \* message_id -> when its buffer last stored a chunk
    repeated,            \* the datagram of this step is the one of the step before
    transport,           \* self.transport, the listening socket: "open" or "closed"
    fn_in, fn_out, fn_pc \* inputs and outputs of the function-level specifications

vars == <<incoming_messages, outgoing_messages, agent_sessions, tasks, agents, submitted,
          clock, sweep_wake, request, response, events, last_chunk, repeated,
          transport, fn_in, fn_out, fn_pc>>

listener_vars == <<incoming_messages, outgoing_messages, agent_sessions, tasks, agents,
                   submitted, clock, sweep_wake, request, response, events, last_chunk,
                   repeated, transport>>

State ==
    [incoming_messages |-> incoming_messages, outgoing_messages |-> outgoing_messages,
     agent_sessions |-> agent_sessions, tasks |-> tasks, agents |-> agents,
     submitted |-> submitted]

NoRequest == [present |-> FALSE, data |-> <<>>]

SweepPeriod      == 300    \* asyncio.sleep(300)
InactivityWindow == 600    \* total_seconds() > 600

RegisteredAgents == {<<97, 98>>, <<97, 98, 99, 100>>}   \* agents known to the store at start: "ab", "abcd"

InitListenerWith(task_table) ==
    /\ incoming_messages = EmptyMap
    /\ outgoing_messages = EmptyMap
    /\ agent_sessions = EmptyMap
    /\ tasks = task_table
    /\ agents = [a \in RegisteredAgents |-> [last_seen |-> 0]]
    /\ submitted = <<>>
    /\ clock = 0
    /\ sweep_wake = SweepPeriod
    /\ request = NoRequest
    /\ response = NoResponse
    /\ events = <<>>
    /\ last_chunk = EmptyMap
    /\ repeated = FALSE
    /\ transport = "open"

InitListener == InitListenerWith(EmptyMap)

DeliveredTask ==
    (<<107, 49>> :> [agent_id |-> <<97, 98>>, status |-> "sent",
                     command |-> <<108, 115>>, parameters |-> <<>>])

\* the bookkeeping every handling step shares
Handled(st, evs) ==
    /\ incoming_messages' = st.incoming_messages
    /\ outgoing_messages' = st.outgoing_messages
    /\ agent_sessions' = st.agent_sessions
    /\ tasks' = st.tasks
    /\ agents' = st.agents
    /\ submitted' = st.submitted
    /\ events' = evs
    /\ transport' = transport
    /\ last_chunk' = [m \in DOMAIN st.incoming_messages |->
                        IF \E i \in 1..Len(evs) : evs[i].ingested /\ evs[i].mid = m
                        THEN clock
                        ELSE last_chunk[m]]

\* DNSProtocol.datagram_received and _handle_query
datagram_received(data) ==
    /\ transport = "open"
    /\ \E pick \in {<<>>, StoreDown} \cup {t \in DOMAIN tasks : tasks[t].status = "pending"} :
        \E out \in {process_query(data, State, clock, pick)} :
            /\ Handled(out.st, out.events)
            /\ request' = [present |-> TRUE, data |-> data]
            /\ repeated' = (request.present /\ request.data = data)
            /\ response' = out.response
            /\ UNCHANGED <<clock, sweep_wake, fn_in, fn_out, fn_pc>>

\* the scan of cleanup_task: the keys older than the inactivity window at `now`
ExpiredKeys(buffers, now) ==
    {m \in DOMAIN buffers : now - buffers[m].timestamp > InactivityWindow}

\* a sweep that drops every buffer it finds
cleanup_task_all ==
    /\ clock >= sweep_wake
    /\ incoming_messages' = EmptyMap
    /\ last_chunk' = EmptyMap
    /\ sweep_wake' = clock + SweepPeriod
    /\ request' = NoRequest
    /\ repeated' = FALSE
    /\ response' = NoResponse
    /\ events' = <<[Event("sweep") EXCEPT !.idx = Cardinality(DOMAIN incoming_messages)]>>
    /\ UNCHANGED <<outgoing_messages, agent_sessions, tasks, agents, submitted, clock,
                   transport, fn_in, fn_out, fn_pc>>

\* one iteration of cleanup_task, from the end of its sleep to the next sleep;
\* the event records how many keys the scan found
cleanup_task ==
    /\ clock >= sweep_wake
    /\ LET Sweep(expired) ==
               /\ incoming_messages' = [m \in (DOMAIN incoming_messages) \ expired |->
                                           incoming_messages[m]]
               /\ last_chunk' = [m \in (DOMAIN incoming_messages) \ expired |->
                                    last_chunk[m]]
               /\ events' = <<[Event("sweep") EXCEPT !.idx = Cardinality(expired)]>>
       IN  Sweep(ExpiredKeys(incoming_messages, clock))
    /\ sweep_wake' = clock + SweepPeriod
    /\ request' = NoRequest
    /\ repeated' = FALSE
    /\ response' = NoResponse
    /\ UNCHANGED <<outgoing_messages, agent_sessions, tasks, agents, submitted, clock,
                   transport, fn_in, fn_out, fn_pc>>

\* DNSListener.stop: closes the socket; the cleanup task and the loop of
\* start() are left as they are
stop ==
    /\ transport = "open"
    /\ transport' = "closed"
    /\ request' = NoRequest
    /\ repeated' = FALSE
    /\ response' = NoResponse
    /\ events' = <<>>
    /\ UNCHANGED <<incoming_messages, outgoing_messages, agent_sessions, tasks, agents,
                   submitted, clock, sweep_wake, last_chunk, fn_in, fn_out, fn_pc>>

MaxClock == 1200
TickStep == 200

\* time passes, up to the moment the sweep is due
Tick ==
    /\ clock < MaxClock
    /\ clock < sweep_wake
    /\ clock' = Min(clock + TickStep, sweep_wake)
    /\ request' = NoRequest
    /\ repeated' = FALSE
    /\ response' = NoResponse
    /\ events' = <<>>
    /\ UNCHANGED <<incoming_messages, outgoing_messages, agent_sessions, tasks, agents,
                   submitted, sweep_wake, last_chunk, transport, fn_in, fn_out, fn_pc>>

MaxTasks == 1
TaskIds  == {<<107, 49>>, <<107, 50>>}                  \* "k1", "k2"
Commands == {<<108, 115>>}                              \* "ls"

\* json.dumps({"a": "x" * n})
ParamOfLen(n) == <<123, 34, 97, 34, 58, 32, 34>> \o Repeat(120, n) \o <<34, 125>>

\* with a two-letter id and command, the serialized task is 54 + n bytes long
ParamLens == {146, 147}

TaskParameters == {<<>>} \cup {ParamOfLen(n) : n \in ParamLens}

\* api.tasks.create_agent_task, called by an operator
create_agent_task ==
    /\ Cardinality(DOMAIN tasks) < MaxTasks
    /\ \E task_id \in TaskIds \ DOMAIN tasks, agent_id \in DOMAIN agents,
          command \in Commands, parameters \in TaskParameters :
          tasks' = Put(tasks, task_id, [agent_id |-> agent_id, status |-> "pending",
                                        command |-> command, parameters |-> parameters])
    /\ request' = NoRequest
    /\ repeated' = FALSE
    /\ response' = NoResponse
    /\ events' = <<>>
    /\ UNCHANGED <<incoming_messages, outgoing_messages, agent_sessions, agents, submitted,
                   clock, sweep_wake, last_chunk, transport, fn_in, fn_out, fn_pc>>

----------------------------------------------------------------------------
(* The datagrams the environment sends *)

Suffix == <<DOT>> \o domain_name

Question(subdomain, qtype) ==
    [domain |-> subdomain \o Suffix, qtype |-> qtype, qclass |-> CLASS_IN]

\* a standard query: header with the recursion-desired flag, then the questions
QueryDatagram(transaction_id, questions) ==
    Pack16(transaction_id) \o Pack16(256) \o Pack16(Len(questions))
    \o Pack16(0) \o Pack16(0) \o Pack16(0) \o QuestionData(questions)

Tid == 7

\* a result document and the chunk names a sender makes of it
ResultPayload == <<123, 34, 116, 97, 115, 107, 95, 105, 100, 34, 58, 32, 34, 107, 49, 34, 125>>
                                                        \* {"task_id": "k1"}
SenderChunkSize == 6
M_multi  == <<109>>     \* "m"
M_single == <<115>>     \* "s"

ResultChunkNames ==
    LET multi  == split_data(ResultPayload, M_multi, SenderChunkSize)
        single == split_data(ResultPayload, M_single, chunk_size)
    IN  {multi[i] : i \in 1..Len(multi)} \cup {single[i] : i \in 1..Len(single)}

S_foobar  == <<102, 111, 111, 98, 97, 114>>          \* "foobar"
S_tasks   == <<116, 97, 115, 107, 115>>              \* "tasks"
PadChar   == 97                                      \* 'a'

\* task.<label-encoded agent id>
TaskQueryName(agent_id) == S_task \o <<DOT>> \o encode_data(agent_id)

\* result.<chunk name>
ResultQueryName(chunk_name) == S_result \o <<DOT>> \o chunk_name

TextQuery(subdomain) == QueryDatagram(Tid, <<Question(subdomain, TYPE_TXT)>>)

\* result chunks, as split_data names them and with one more character at
\* the end of the last label
ResultQueries ==
    {TextQuery(ResultQueryName(c)) : c \in ResultChunkNames}
    \cup {TextQuery(Append(ResultQueryName(c), PadChar)) : c \in ResultChunkNames}

\* result.<message id>.<index>.<total>.<label>, written by hand
HandMadeResultName(message_id, index, total, piece) ==
    S_result \o <<DOT>> \o message_id \o <<DOT>> \o index \o <<DOT>> \o total
    \o <<DOT>> \o encode_data(piece)

\* result queries no split_data would make: an index equal to the total, a
\* negative index, and a total that differs from the one the buffer was
\* created with; each with one more character at the end of the last label
OutOfRangeQueries ==
    {TextQuery(Append(HandMadeResultName(M_multi, idx_total[1], idx_total[2], <<120>>),
                      PadChar)) :
        idx_total \in {<<IntToStr(3), IntToStr(3)>>,
                       <<<<HYPHEN>> \o IntToStr(1), IntToStr(3)>>,
                       <<IntToStr(0), IntToStr(1)>>}}

\* task.<agent id>, the id spelled as it is
PlainTaskQueryName(agent_id) == S_task \o <<DOT>> \o agent_id

\* task pulls: with the agent id as encode_data spells it, with the id spelled
\* as it is, and with one more character at the end of the encoded label
TaskQueries ==
    {TextQuery(TaskQueryName(a)) : a \in RegisteredAgents}
    \cup {TextQuery(PlainTaskQueryName(a)) : a \in RegisteredAgents}
    \cup {TextQuery(Append(TaskQueryName(a), PadChar)) : a \in RegisteredAgents}

S_beacon_x == S_beacon \o <<DOT, 120>>                             \* "beacon.x"
S_checkin_empty == S_checkin \o <<DOT>> \o encode_data(<<123, 125>>)  \* "checkin." + encode("{}")

S_beacon_ab == S_beacon \o <<DOT>> \o encode_data(<<97, 98>>)      \* "beacon." + encode("ab")

BeaconQueries == {TextQuery(S_beacon_x), TextQuery(S_beacon_ab)}

OtherTextQueries ==
    {TextQuery(sub) : sub \in {S_foobar, S_tasks, S_checkin_empty}} \cup BeaconQueries

OtherQueries ==
    {QueryDatagram(Tid, <<Question(S_foobar, t)>>) : t \in {TYPE_A, TYPE_NS, TYPE_SOA}}
    \cup {QueryDatagram(Tid, <<Question(S_foobar, TYPE_TXT), Question(S_beacon_x, TYPE_TXT)>>)}

\* queries for a name outside the base domain, one of each record type
S_foreign == <<119, 119, 119, 46, 111, 116, 104, 101, 114, 46, 111, 114, 103>>   \* "www.other.org"

ForeignQueries ==
    {QueryDatagram(Tid, <<[domain |-> S_foreign, qtype |-> t, qclass |-> CLASS_IN]>>) :
        t \in {TYPE_A, TYPE_NS, TYPE_SOA, TYPE_TXT}}

\* malformed datagrams: every proper prefix of a one-question and of a
\* two-question query, a header alone that announces no question, and a label
\* whose length byte runs past the end
BaseQuery == TextQuery(S_foobar)
TwoQuestions == QueryDatagram(Tid, <<Question(S_beacon_x, TYPE_TXT),
                                     Question(S_foobar, TYPE_TXT)>>)

Malformed ==
    {Slice(BaseQuery, 0, k) : k \in 0..(Len(BaseQuery) - 1)}
    \cup {Slice(TwoQuestions, 0, k) : k \in 0..(Len(TwoQuestions) - 1)}
    \cup {Slice(QueryDatagram(Tid, <<>>), 0, k) : k \in 6..11}
    \cup {[BaseQuery EXCEPT ![13] = 60]}

Datagrams == ResultQueries \cup OutOfRangeQueries \cup TaskQueries \cup OtherTextQueries \cup OtherQueries
             \cup ForeignQueries
             \cup Malformed

----------------------------------------------------------------------------
(* The listener: datagrams arrive, operators create tasks, time passes, the  *)
(* sweep runs                                                                *)

Init ==
    /\ InitListener
    /\ fn_in = <<>>
    /\ fn_out = <<>>
    /\ fn_pc = "listener"

Next ==
    \/ \E data \in Datagrams : datagram_received(data)
    \/ create_agent_task
    \/ cleanup_task
    \/ Tick
    \/ stop

Spec == Init /\ [][Next]_vars

\* Scenario specifications: the same listener with the environment restricted
\* to one concern, so that each stays small enough to explore exhaustively.

\* result chunks, each possibly handled several times in a row
NextReassembly == \E data \in ResultQueries : datagram_received(data)

\* result chunks of a sender together with hand-made ones
NextBuffers == \E data \in ResultQueries \cup OutOfRangeQueries : datagram_received(data)

\* task "k1" was delivered to agent "ab" before the results come in
InitReassembly ==
    /\ InitListenerWith(DeliveredTask)
    /\ fn_in = <<>>
    /\ fn_out = <<>>
    /\ fn_pc = "listener"

SpecReassembly == InitReassembly /\ [][NextReassembly]_vars

\* the first chunk of each message, reaching the handler intact, the clock
\* and the sweep
SweepQueries ==
    LET multi == split_data(ResultPayload, M_multi, SenderChunkSize)
        single == split_data(ResultPayload, M_single, chunk_size)
    IN  {TextQuery(Append(ResultQueryName(c), PadChar)) : c \in {multi[1], single[1]}}

NextSweep ==
    \/ \E data \in SweepQueries : datagram_received(data)
    \/ cleanup_task
    \/ Tick

SpecSweep == InitReassembly /\ [][NextSweep]_vars

SpecBuffers == InitReassembly /\ [][NextBuffers]_vars

\* the sweep scenario with the listener stopped at some moment
NextShutdown ==
    \/ NextSweep
    \/ stop

SpecShutdown == InitReassembly /\ [][NextShutdown]_vars

\* task creation and the queries of the dispatcher other than result
NextTasks ==
    \/ \E data \in TaskQueries \cup OtherTextQueries : datagram_received(data)
    \/ create_agent_task

SpecTasks == Init /\ [][NextTasks]_vars

\* the wire codec: well-formed queries of every type and malformed datagrams
NextWire ==
    \E data \in OtherTextQueries \cup OtherQueries \cup ForeignQueries \cup Malformed :
        datagram_received(data)

SpecWire == Init /\ [][NextWire]_vars

----------------------------------------------------------------------------
(* The dispatcher called on its own: handle_agent_query on a query name *)

\* a check-in document with every required field of AgentCheckIn
ValidCheckin ==
    JsonDumps(JObj(<< <<K_session_id, JStr(<<115, 49>>)>>,        \* "s1"
                      <<K_hostname, JStr(<<72, 49>>)>>,           \* "H1"
                      <<K_username, JStr(<<117>>)>>,
                      <<K_platform, JStr(<<112>>)>>,
                      <<K_architecture, JStr(<<120>>)>>,
                      <<K_process_id, JInt(1)>>,
                      <<K_internal_ip, JStr(<<105>>)>>,
                      <<K_external_ip, JStr(<<101>>)>> >>))

\* checkin.<encoded payload>.<domain>, the payload in a single label
CheckinName(payload) == S_checkin \o <<DOT>> \o encode_data(payload) \o Suffix

\* checkin.<encoded payload>.<domain>, the payload cut into labels of at most
\* 63 characters, as it is and with one more character at the end
CheckinLabelsName(payload) ==
    S_checkin \o <<DOT>> \o SplitIntoLabels(encode_data(payload))

DispatchNames ==
    {CheckinName(ValidCheckin), S_foobar \o Suffix, S_beacon_x \o Suffix}
    \cup {CheckinLabelsName(ValidCheckin) \o Suffix,
          Append(CheckinLabelsName(ValidCheckin), PadChar) \o Suffix}
    \cup {TaskQueryName(a) \o Suffix : a \in RegisteredAgents}
    \cup {Append(TaskQueryName(a), PadChar) \o Suffix : a \in RegisteredAgents}

agent_query(domain) ==
    \E pick \in {<<>>, StoreDown} \cup {t \in DOMAIN tasks : tasks[t].status = "pending"} :
        \E out \in {handle_agent_query(domain, TYPE_TXT, Tid, State, clock, pick)} :
            /\ Handled(out.st, <<out.ev>>)
            /\ fn_in' = domain
            /\ fn_out' = out.answer
            /\ fn_pc' = "dispatched"
            /\ request' = NoRequest
            /\ repeated' = FALSE
            /\ response' = NoResponse
            /\ UNCHANGED <<clock, sweep_wake>>

NextDispatch ==
    \/ \E domain \in DispatchNames : agent_query(domain)
    \/ create_agent_task

SpecDispatch == Init /\ [][NextDispatch]_vars

----------------------------------------------------------------------------
(* Chunk round trip: the names split_data makes of a payload, handed to     *)
(* handle_result_query in any order                                          *)

MaxChunkPayload == 40
ChunkPayloadLens == {0, 17, MaxChunkPayload}
ChunkSizes == {5, 10, 50}

\* a payload of n bytes: the result document, then filler
ChunkPayload(n) == [i \in 1..n |-> IF i <= Len(ResultPayload) THEN ResultPayload[i] ELSE 65 + (i % 7)]

InitChunk ==
    /\ InitListener
    /\ fn_in \in [payload : {ChunkPayload(n) : n \in ChunkPayloadLens}, size : ChunkSizes]
    /\ fn_out = [fed |-> {}, complete |-> FALSE, reassembled |-> <<>>]
    /\ fn_pc = "chunks"

ChunkNames == split_data(fn_in.payload, M_multi, fn_in.size)

\* chunk k of the payload is handled as a result query
IngestChunk(k) ==
    /\ fn_pc = "chunks"
    /\ k \in 1..Len(ChunkNames)
    /\ \E out \in {handle_result_query(SplitOn(ChunkNames[k], DOT), Tid, State, clock)} :
          /\ Handled(out.st, <<out.ev>>)
          /\ fn_out' = [fed |-> fn_out.fed \cup {k - 1},
                        complete |-> out.ev.reassembled,
                        reassembled |-> out.ev.full_data]
    /\ request' = NoRequest
    /\ repeated' = FALSE
    /\ response' = NoResponse
    /\ UNCHANGED <<clock, sweep_wake, fn_in, fn_pc>>

NextChunk == \E k \in 1..Len(ChunkNames) : IngestChunk(k)

SpecChunk == InitChunk /\ [][NextChunk]_vars

----------------------------------------------------------------------------
(* The agent side: agent/transports/dns.py, DNSTransport *)

\* the base64 alphabet: A-Z, a-z, 0-9, '+', '/'
B64Char(n) ==
    IF n < 26 THEN 65 + n
    ELSE IF n < 52 THEN 97 + (n - 26)
    ELSE IF n < 62 THEN 48 + (n - 52)
    ELSE IF n = 62 THEN 43 ELSE 47

\* base64.b64encode(data): four characters for every three bytes, '=' padding
b64encode(data) ==
    LET byte(i) == IF i <= Len(data) THEN data[i] ELSE 0
        sextet(g, j) ==
            IF j = 0 THEN byte(3 * g + 1) \div 4
            ELSE IF j = 1 THEN (byte(3 * g + 1) % 4) * 16 + byte(3 * g + 2) \div 16
            ELSE IF j = 2 THEN (byte(3 * g + 2) % 16) * 4 + byte(3 * g + 3) \div 64
            ELSE byte(3 * g + 3) % 64
        char(g, j) ==
            IF (j = 2 /\ 3 * g + 2 > Len(data)) \/ (j = 3 /\ 3 * g + 3 > Len(data))
            THEN EQUALS
            ELSE B64Char(sextet(g, j))
    IN  [k \in 1..(4 * ((Len(data) + 2) \div 3)) |-> char((k - 1) \div 4, (k - 1) % 4)]

\* DNSTransport._encode_for_dns, json_data being json.dumps(data): the first
\* 50 characters of its base64 form
encode_for_dns(json_data) == Slice(b64encode(json_data), 0, 50)

\* the query names DNSTransport.checkin, get_tasks and send_result make
AgentCheckinName(json_data) ==
    encode_for_dns(json_data) \o <<DOT>> \o S_checkin \o <<DOT>> \o domain_name

AgentTasksName(session_id) ==
    S_tasks \o <<DOT>> \o session_id \o <<DOT>> \o domain_name

AgentResultName(json_data) ==
    encode_for_dns(json_data) \o <<DOT>> \o S_result \o <<DOT>> \o domain_name

\* DNSTransport._send_dns_query: socket.gethostbyname(query) asks for the
\* address record of the name
send_dns_query(query) ==
    QueryDatagram(Tid, <<[domain |-> query, qtype |-> TYPE_A, qclass |-> CLASS_IN]>>)

\* what the agent has to say: check-in and result documents, session ids
AgentDocuments == {ValidCheckin, ResultPayload, JsonDumps(JObj(<<>>))}
AgentSessionIds == {<<115, 49>>, <<115, 50>>}             \* "s1", "s2"

AgentCheckinQueries == {send_dns_query(AgentCheckinName(d)) : d \in AgentDocuments}
AgentTasksQueries   == {send_dns_query(AgentTasksName(sid)) : sid \in AgentSessionIds}
AgentResultQueries  == {send_dns_query(AgentResultName(d)) : d \in AgentDocuments}

\* the agent's queries reaching the listener, and task creation
NextAgent ==
    \/ \E data \in AgentCheckinQueries \cup AgentTasksQueries \cup AgentResultQueries :
          datagram_received(data)
    \/ create_agent_task

SpecAgent == Init /\ [][NextAgent]_vars

----------------------------------------------------------------------------
(* split_data on its own, over message ids of several lengths *)

MessageIdLens == {1, 9, 62, 63, 64}
SplitPayloadLens == {0, 1, 17, MaxChunkPayload, MaxChunkPayload + 1}

InitSplit ==
    /\ InitListener
    /\ fn_in \in [payload : {ChunkPayload(n) : n \in SplitPayloadLens}, size : ChunkSizes,
                  message_id : {Repeat(109, n) : n \in MessageIdLens}]
    /\ fn_out = <<>>
    /\ fn_pc = "split"

SplitCall ==
    /\ fn_pc = "split"
    /\ fn_out' = split_data(fn_in.payload, fn_in.message_id, fn_in.size)
    /\ fn_pc' = "split_done"
    /\ UNCHANGED <<fn_in, listener_vars>>

NextSplit == SplitCall

SpecSplit == InitSplit /\ [][NextSplit]_vars

----------------------------------------------------------------------------
(* Label-encoder round trip, over bounded byte strings *)

MaxCodecLen == 5
CodecBytes  == {0, 102, 255}

RECURSIVE SeqsUpTo(_, _)
SeqsUpTo(S, n) ==
    IF n = 0 THEN {<<>>}
    ELSE LET shorter == SeqsUpTo(S, n - 1)
         IN  shorter \cup {Append(s, x) : s \in {t \in shorter : Len(t) = n - 1}, x \in S}

InitCodec ==
    /\ InitListener
    /\ fn_in \in SeqsUpTo(CodecBytes, MaxCodecLen)
    /\ fn_out = <<>>
    /\ fn_pc = "codec"

CodecRoundTrip ==
    /\ fn_pc = "codec"
    /\ LET enc == encode_data(fn_in)
       IN  fn_out' = [enc |-> enc,
                      dec |-> decode_data(enc),
                      decUpper |-> decode_data(Upper(enc)),
                      decLower |-> decode_data(Lower(enc))]
    /\ fn_pc' = "codec_done"
    /\ UNCHANGED <<fn_in, listener_vars>>

NextCodec == CodecRoundTrip

SpecCodec == InitCodec /\ [][NextCodec]_vars

IsLabelChar(c) == c \in 97..122 \/ c \in 65..90 \/ c \in 48..57 \/ c = HYPHEN

\* C9: for every byte string p, decode_data(encode_data(p)) = p, the encoded
\* string uses only letters, digits and hyphen, and decoding the encoded
\* string after upper- or lower-casing it still yields p.
C9_LabelRoundTrip ==
    fn_pc = "codec_done" =>
        /\ fn_out.dec = Return(fn_in)
        /\ \A i \in 1..Len(fn_out.enc) : IsLabelChar(fn_out.enc[i])
        /\ fn_out.decUpper = Return(fn_in)
        /\ fn_out.decLower = Return(fn_in)

\* a payload whose encoding needs padding has made the round trip
C9_Witness ==
    /\ fn_pc = "codec_done"
    /\ Len(fn_in) = 3
    /\ Len(fn_out.enc) = 5
    /\ fn_out.dec = Return(fn_in)

----------------------------------------------------------------------------
(* What a response says *)

\* the bytes carried by a text record: its segments without the length bytes
TxtPayload(rdata) ==
    [j \in 1..(Len(rdata) - ((Len(rdata) + 255) \div 256)) |-> rdata[j + ((j - 1) \div 255) + 1]]

\* a success response with one text record carrying payload
TextAnswer(resp, payload) ==
    /\ resp.sent
    /\ resp.flags = FLAGS_SUCCESS
    /\ resp.ancount = 1
    /\ Len(resp.answers) = 1
    /\ resp.answers[1].rtype = TYPE_TXT
    /\ TxtPayload(resp.answers[1].rdata) = payload

IsNxdomain(resp) == resp.sent /\ resp.flags % 16 = 3 /\ resp.ancount = 0 /\ resp.answers = <<>>

IsServfail(resp) == resp.sent /\ resp.flags % 16 = 2

Received(data) == [present |-> TRUE, data |-> data]

----------------------------------------------------------------------------
(* Chunk round trip *)

AllIndices == 0..(Len(ChunkNames) - 1)

\* the slice of the payload that chunk i carries
PayloadSlice(i) == Slice(fn_in.payload, i * fn_in.size, (i + 1) * fn_in.size)

\* C1: feeding the chunk names of split_data(p, id) through the result handler
\* in any order yields exactly p once all indices have been ingested; until
\* then no completion happens and the buffer holds exactly the slices fed.
C1_ChunkRoundTrip ==
    (fn_pc = "chunks" /\ fn_out.fed # {}) =>
        /\ M_multi \in DOMAIN incoming_messages
        /\ \A i \in fn_out.fed :
               /\ i \in DOMAIN incoming_messages[M_multi].chunks
               /\ incoming_messages[M_multi].chunks[i] = PayloadSlice(i)
        /\ fn_out.fed = AllIndices => (fn_out.complete /\ fn_out.reassembled = fn_in.payload)
        /\ fn_out.fed # AllIndices => ~fn_out.complete

----------------------------------------------------------------------------
(* Result chunks *)

C4_StaleBufferAbsent ==
    [][\A i \in 1..Len(events') :
          (/\ events'[i].ingested
           /\ events'[i].mid \in DOMAIN incoming_messages
           /\ clock - last_chunk[events'[i].mid] > InactivityWindow)
          => events'[i].fresh]_vars

----------------------------------------------------------------------------
(* Task pulls *)

\* C3: after a MULTI answer, each further task query of that agent consumes
\* one chunk of the agent's outgoing queue: the response carries the head of
\* the queue and the queue loses it.
C3_QueueConsumed ==
    [][\A i \in 1..Len(events') :
          (/\ events'[i].kind = "task"
           /\ events'[i].resolved
           /\ events'[i].agent \in DOMAIN outgoing_messages
           /\ outgoing_messages[events'[i].agent] # <<>>)
          => /\ TextAnswer(response', Head(outgoing_messages[events'[i].agent]))
             /\ outgoing_messages'[events'[i].agent]
                    = Tail(outgoing_messages[events'[i].agent])]_vars

\* C6: a text query task.<agentId>.<domain> of a registered agent without a
\* pending task is answered with a text record carrying exactly NOTASK.
C6_NoTask ==
    [][\A a \in DOMAIN agents :
          (/\ PendingTasks(tasks, a) = {}
           /\ request' \in {Received(TextQuery(TaskQueryName(a))),
                            Received(TextQuery(PlainTaskQueryName(a)))})
          => TextAnswer(response', S_NOTASK)]_vars

\* the number of chunks a payload of n bytes needs: the n with
\* (n - 1) * chunk_size < length <= n * chunk_size
CeilChunks(length) ==
    CHOOSE n \in 0..length : (n - 1) * chunk_size < length /\ length <= n * chunk_size

\* C7: a serialized task exactly as long as the single-response threshold is
\* returned whole in one text record and leaves the outgoing queue unchanged;
\* one byte longer, it is answered with MULTI:<messageId>:<totalChunks>,
\* totalChunks = ceil(length / chunk_size).
C7_SizeBoundary ==
    [][\A i \in 1..Len(events') :
          events'[i].task # <<>> =>
              LET task_id   == events'[i].task
                  task_data == SerializeTask(task_id, tasks[task_id]).val
              IN  /\ Len(task_data) = MultiThreshold =>
                         /\ TextAnswer(response', task_data)
                         /\ outgoing_messages' = outgoing_messages
                  /\ Len(task_data) = MultiThreshold + 1 =>
                         TextAnswer(response',
                                    S_MULTI \o <<116>> \o Slice(task_id, 0, 8) \o <<COLON>>
                                    \o IntToStr(CeilChunks(Len(task_data))))]_vars

\* a task serialized to exactly the threshold length has been pulled and
\* answered in one record
C7_Witness ==
    /\ request.present
    /\ Len(events) = 1
    /\ events[1].task # <<>>
    /\ Len(SerializeTask(events[1].task, tasks[events[1].task]).val) = MultiThreshold
    /\ response.sent
    /\ Len(TxtPayload(response.answers[1].rdata)) = MultiThreshold
    /\ outgoing_messages = EmptyMap

----------------------------------------------------------------------------
(* Dispatching *)

\* C5: a text query checkin.<payload>.<domain> whose single payload label
\* encodes a valid check-in document makes the dispatcher call the
\* registration verb, and the answer is JSON with the agent id it returned.
C5_Checkin ==
    (fn_pc = "dispatched" /\ fn_in = CheckinName(ValidCheckin)) =>
        /\ events[1].registered
        /\ fn_out # <<>>
        /\ TxtPayload(fn_out) # S_ERROR
        /\ JsonLoads(TxtPayload(fn_out)).ok
        /\ HasKey(JsonLoads(TxtPayload(fn_out)).val, K_agent_id)
        /\ GetKey(JsonLoads(TxtPayload(fn_out)).val, K_agent_id).v = events[1].agent

Verbs == {S_checkin, S_task, S_result, S_beacon}

\* C8: a text query under the base domain whose first label is none of
\* checkin, task, result, beacon is answered with NXDOMAIN and no answer.
C8_UnknownQuery ==
    \A sub \in {S_foobar, S_tasks} :
        (SplitOn(sub, DOT)[1] \notin Verbs /\ request = Received(TextQuery(sub)))
        => IsNxdomain(response)

\* C10: every malformed datagram is answered with a SERVFAIL response.
C10_MalformedServfail ==
    (request.present /\ request.data \in Malformed) => IsServfail(response)

----------------------------------------------------------------------------
(* Failures inside the handlers *)

HandlerKinds == {"checkin", "task", "result", "beacon"}

\* the handler could not do what the query asked for
HandlerFailed(ev) ==
    \/ ev.kind = "task" /\ ~ev.resolved
    \/ ev.kind = "checkin" /\ ~ev.registered
    \/ ev.kind = "result" /\ ~ev.ingested

\* C11: whatever fails inside a handler (the store, the decoding of the
\* payload, the agent lookup), the wire response is a success response with an
\* answer, never SERVFAIL or NXDOMAIN, and a failed handler answers ERROR.
C11_FailureContained ==
    (request.present /\ Len(events) = 1 /\ events[1].kind \in HandlerKinds) =>
        /\ response.sent
        /\ response.flags = FLAGS_SUCCESS
        /\ response.ancount > 0
        /\ HandlerFailed(events[1]) => TextAnswer(response, S_ERROR)

----------------------------------------------------------------------------
(* Names outside the base domain *)

\* C12: a query for a name that is not under the base domain is answered
\* with NXDOMAIN and no answer, whatever the record type.
C12_ForeignDomain ==
    (request.present /\ request.data \in ForeignQueries) => IsNxdomain(response)

----------------------------------------------------------------------------
(* Handing a reassembled result over *)

\* C13: a result query is acknowledged with CHUNK:<index> while its buffer is
\* incomplete; the query that completes the buffer has the reassembled
\* payload passed to the submission verb exactly once and is answered ACK.
C13_ResultHandOff ==
    [][\A i \in 1..Len(events') :
          events'[i].ingested =>
              IF events'[i].reassembled
              THEN /\ TextAnswer(response', S_ACK)
                   /\ Len(submitted') = Len(submitted) + 1
                   /\ submitted'[Len(submitted')].message_id = events'[i].mid
              ELSE /\ TextAnswer(response', S_CHUNK \o IntToStr(events'[i].idx))
                   /\ submitted' = submitted]_vars

----------------------------------------------------------------------------
(* Beacons *)

\* C14: every text query beacon.<opaque>.<domain> is answered with a text
\* record carrying exactly PONG, whether or not an agent id is found for its
\* transaction id; only the last-seen marker of the agent found, if any, is
\* updated, and nothing else changes.
C14_BeaconPong ==
    [][(request'.present /\ request'.data \in BeaconQueries) =>
          /\ TextAnswer(response', S_PONG)
          /\ Len(events') = 1
          /\ events'[1].kind = "beacon"
          /\ \A a \in DOMAIN agents :
                 (~events'[1].resolved \/ a # events'[1].agent) => agents'[a] = agents[a]
          /\ DOMAIN agents' = DOMAIN agents
          /\ UNCHANGED <<incoming_messages, outgoing_messages, agent_sessions, tasks,
                         submitted>>]_vars

\* a beacon without a known agent has been answered PONG
C14_Witness ==
    /\ request.present
    /\ request.data \in BeaconQueries
    /\ Len(events) = 1
    /\ events[1].kind = "beacon"
    /\ ~events[1].resolved
    /\ TextAnswer(response, S_PONG)

----------------------------------------------------------------------------
(* Whose task a task query gets *)

\* what the handler reads in a label, if the label decodes at all
DecodedOrNone(label) ==
    IF decode_data(label).ok /\ Utf8Decode(decode_data(label).val).ok
    THEN Utf8Decode(decode_data(label).val).val
    ELSE <<>>

\* the names under which agent_id pulls its task
TaskNamesOf(agent_id) ==
    {TaskQueryName(agent_id) \o Suffix, Append(TaskQueryName(agent_id), PadChar) \o Suffix}

----------------------------------------------------------------------------
(* One response per datagram *)

\* C16: every inbound datagram, whatever it holds, gets a response (success,
\* NXDOMAIN or SERVFAIL) that carries the transaction id of the request.
C16_OneResponse ==
    request.present =>
        /\ response.sent
        /\ response.flags \in {FLAGS_SUCCESS, FLAGS_NXDOMAIN, FLAGS_SERVFAIL}
        /\ Unpack16(request.data, 0).ok => response.id = Unpack16(request.data, 0).val

----------------------------------------------------------------------------
(* What a reassembly buffer holds *)

\* C17: every chunk index stored in a buffer of incoming_messages lies in
\* 0 .. total_chunks - 1 of that buffer, and a result query is treated as
\* completing its buffer exactly when the number of chunks stored equals the
\* total_chunks of that buffer.
C17_BufferInvariant ==
    /\ \A m \in DOMAIN incoming_messages :
           \A i \in DOMAIN incoming_messages[m].chunks :
               0 <= i /\ i < incoming_messages[m].total_chunks
    /\ \A k \in 1..Len(events) :
           (events[k].ingested /\ events[k].mid \in DOMAIN incoming_messages) =>
               (TextAnswer(response, S_CHUNK \o IntToStr(events[k].idx))
                <=> Cardinality(DOMAIN incoming_messages[events[k].mid].chunks)
                        # incoming_messages[events[k].mid].total_chunks)

----------------------------------------------------------------------------
(* The end of a reassembly buffer *)

\* C18: once the result query that completes a buffer has been answered,
\* incoming_messages no longer holds that message id.
C18_BufferDestroyed ==
    [][\A k \in 1..Len(events') :
          events'[k].reassembled => events'[k].mid \notin DOMAIN incoming_messages']_vars

----------------------------------------------------------------------------
(* The sweep *)

\* C20: one sweep iteration scans and deletes in a single step: it removes
\* exactly the keys that are expired at that moment, leaves every other
\* buffer as it was, and so never removes a buffer created after its scan;
\* no state lies between the scan and the deletions.
C20_SweepAtomic ==
    [][sweep_wake' # sweep_wake =>
          /\ DOMAIN incoming_messages' =
                 DOMAIN incoming_messages \ ExpiredKeys(incoming_messages, clock)
          /\ \A m \in DOMAIN incoming_messages' :
                 incoming_messages'[m] = incoming_messages[m]
          /\ ExpiredKeys(incoming_messages', clock') = {}
          /\ clock' = clock]_vars

\* a sweep has removed an expired buffer and kept a younger one
C20_Witness ==
    /\ Len(events) = 1
    /\ events[1].kind = "sweep"
    /\ events[1].idx >= 1
    /\ incoming_messages # EmptyMap
    /\ \E m \in DOMAIN incoming_messages : incoming_messages[m].timestamp > 0

----------------------------------------------------------------------------
(* Shutdown *)

\* C21: once the listener is stopped its socket is closed and the periodic
\* sweep is cancelled: no sweep iteration runs after stop().
C21_SweepCancelled ==
    [][transport = "closed" => sweep_wake' = sweep_wake]_vars

----------------------------------------------------------------------------
(* The names split_data makes *)

\* the labels written one after the other
RECURSIVE Concatenated(_)
Concatenated(labels) ==
    IF Len(labels) = 0 THEN <<>> ELSE labels[1] \o Concatenated(Tail(labels))

\* C22: every string of split_data reads <message id>.<index>.<total>.<encoded
\* slice>, only the encoded slice being spread over further labels, and each
\* of its dot-separated labels is non-empty and at most 63 characters long.
C22_SplitLabels ==
    fn_pc = "split_done" =>
        \A k \in 1..Len(fn_out) :
            LET Legal(labels) ==
                    /\ \A j \in 1..Len(labels) :
                           Len(labels[j]) >= 1 /\ Len(labels[j]) <= max_label_length
                    /\ Len(labels) >= 4
                    /\ labels[1] = fn_in.message_id
                    /\ labels[2] = IntToStr(k - 1)
                    /\ labels[3] = IntToStr(Len(fn_out))
                    /\ Concatenated(SubSeq(labels, 4, Len(labels))) =
                           encode_data(Slice(fn_in.payload, (k - 1) * fn_in.size,
                                             k * fn_in.size))
            IN  Legal(SplitOn(fn_out[k], DOT))

----------------------------------------------------------------------------
(* Owner names of the answers *)

\* the name an owner-name field denotes in resp: the pointer 0xC00C is the
\* name at byte 12 of the message, where the question section starts
DenotedName(resp, name) ==
    IF name = <<192, 12>>
    THEN JoinWith(ParseName(resp.question_data, 0, <<>>).parts, DOT)
    ELSE <<>>

\* C23: in every success response each answer's owner name denotes the name
\* of the question the answer replies to, also when the query carries several
\* questions with different names.
C23_AnswerNames ==
    (request.present /\ response.sent /\ response.flags = FLAGS_SUCCESS) =>
        \A i \in 1..Len(response.answers) :
            DenotedName(response, response.answers[i].name) = response.answers[i].replies_to

----------------------------------------------------------------------------
(* Header flags of the three response classes *)

\* QR, bit 15 of the flags word: the message is a response
ResponseBit(word) == (word \div 32768) % 2

\* AA, bit 10 of the flags word: the answer is authoritative
AuthoritativeBit(word) == (word \div 1024) % 2

\* the response code, the low four bits
Rcode(word) == word % 16

\* C24: a success response has the response bit and the authoritative bit
\* set, response code 0 and at least one answer; an NXDOMAIN response has
\* response code 3 and no answer; a SERVFAIL response has response code 2;
\* the answer count of the header is the number of answer records.
C24_ResponseFlags ==
    response.sent =>
        /\ response.ancount = Len(response.answers)
        /\ response.flags = FLAGS_NXDOMAIN =>
               Rcode(response.flags) = 3 /\ response.ancount = 0
        /\ response.flags = FLAGS_SERVFAIL => Rcode(response.flags) = 2
        /\ response.flags = FLAGS_SUCCESS =>
               /\ Rcode(response.flags) = 0
               /\ response.ancount > 0
               /\ ResponseBit(response.flags) = 1
               /\ AuthoritativeBit(response.flags) = 1

----------------------------------------------------------------------------
(* The subdomain the dispatcher works on *)

\* C25: for a query name <subdomain>.<domain> the labels the dispatcher
\* classifies and hands on are those of the query name without the suffix
\* .<domain>: no character is lost, and the last label handed on is the last
\* subdomain label of the query.
C25_SubdomainExtraction ==
    (fn_pc = "dispatched" /\ EndsWith(fn_in, Suffix) /\ Len(fn_in) > Len(Suffix)) =>
        /\ Len(events) = 1
        /\ events[1].parts = SplitOn(SubSeq(fn_in, 1, Len(fn_in) - Len(Suffix)), DOT)

----------------------------------------------------------------------------
(* Delivery of a task *)

StartsWith(s, prefix) == Len(s) >= Len(prefix) /\ SubSeq(s, 1, Len(prefix)) = prefix

\* the answer carries the whole of task t: a document that opens {"id": "<t>"
\* and closes with a brace
CarriesWhole(answer, t) ==
    /\ answer # <<>>
    /\ StartsWith(TxtPayload(answer),
                  <<LBRACE, QUOTE>> \o K_id \o <<QUOTE, COLON, SPACE, QUOTE>> \o t
                  \o <<QUOTE, COMMA>>)
    /\ TxtPayload(answer)[Len(TxtPayload(answer))] = RBRACE

\* the answer carries the MULTI marker of the message made of task t
CarriesMarker(answer, t) ==
    /\ answer # <<>>
    /\ StartsWith(TxtPayload(answer), S_MULTI \o <<116>> \o Slice(t, 0, 8) \o <<COLON>>)

CarriesTask(answer, t) == CarriesWhole(answer, t) \/ CarriesMarker(answer, t)

----------------------------------------------------------------------------
(* The total a buffer is reassembled against *)

\* C27: a buffer is reassembled only against the total_chunks recorded when
\* it was created: a result query for an existing buffer never leads to the
\* reassembly or the submission of a payload that lacks an index in
\* 0 .. recorded total_chunks - 1.
C27_RecordedTotal ==
    [][\A k \in 1..Len(events') :
          (/\ events'[k].ingested
           /\ events'[k].mid \in DOMAIN incoming_messages
           /\ \/ events'[k].reassembled
              \/ \E j \in 1..Len(submitted') :
                     j > Len(submitted) /\ submitted'[j].message_id = events'[k].mid)
          => \A i \in 0..(incoming_messages[events'[k].mid].total_chunks - 1) :
                 i \in DOMAIN incoming_messages[events'[k].mid].chunks \cup {events'[k].idx}]_vars

----------------------------------------------------------------------------
(* Transfers in progress and the sweep *)

\* C28: the sweep never removes a buffer that stored a chunk less than 600
\* seconds ago.
C28_ActiveSurvives ==
    [][sweep_wake' # sweep_wake =>
          \A m \in DOMAIN incoming_messages :
              clock - last_chunk[m] < InactivityWindow => m \in DOMAIN incoming_messages']_vars

----------------------------------------------------------------------------
(* What an ERROR answer leaves behind *)

\* C29: a checkin, task or result query that is answered ERROR leaves
\* agent_sessions, incoming_messages and outgoing_messages as they were.
C29_ErrorLeavesState ==
    [][(/\ request'.present
        /\ Len(events') = 1
        /\ events'[1].kind \in {"checkin", "task", "result"}
        /\ TextAnswer(response', S_ERROR))
       => UNCHANGED <<agent_sessions, incoming_messages, outgoing_messages>>]_vars

----------------------------------------------------------------------------
(* The agent's names and the listener's grammar *)

\* C30: every query the agent's DNS transport emits for check-in, task pull
\* and result push is classified by the listener as that operation: the
\* dispatcher hands it to the checkin, task or result handler.
C30_AgentServerAgreement ==
    request.present =>
        /\ request.data \in AgentCheckinQueries =>
               Len(events) = 1 /\ events[1].kind = "checkin"
        /\ request.data \in AgentTasksQueries =>
               Len(events) = 1 /\ events[1].kind = "task"
        /\ request.data \in AgentResultQueries =>
               Len(events) = 1 /\ events[1].kind = "result"

====
